---- MODULE Spec2Model ----
(***************************************************************************)
(* A state-machine model of pyMOR's parametric AAA reductor                *)
(* (src/pymor/reductors/aaa.py): pAAAReductor.reduce with its greedy loop, *)
(* the conjugate augmentation, the MIMO projection, post-processing and    *)
(* the barycentric form.                                                   *)
(*                                                                         *)
(* Conventions.  Variables of the rational function are numbered 1..n      *)
(* here (the code numbers them 0..n-1, so the code's "variable 0", the     *)
(* Laplace variable, is variable 1 of the model).  Indices INTO a sampling *)
(* sequence are data of the program and keep the code's 0-based values:    *)
(* index k of the code is element k+1 of the TLA+ sequence.                *)
(*                                                                         *)
(* Complex numbers are pairs <<re, im>> of integers.  Magnitudes are kept  *)
(* squared (|z|^2 = re^2 + im^2), which is exact on integers and keeps     *)
(* every comparison the code makes between non-negative magnitudes.        *)
(*                                                                         *)
(* The results of the floating-point linear algebra (the error of a        *)
(* barycentric form on the grid, the singular values and the last right    *)
(* singular vector of a Loewner matrix, the numerical ranks of 1-D Loewner *)
(* matrices) are deterministic functions of their inputs whose values the  *)
(* model does not compute: each is chosen nondeterministically the first   *)
(* time it is needed for an input and remembered, so that the same input   *)
(* gives the same result again.                                            *)
(***************************************************************************)
EXTENDS Integers, Sequences, FiniteSets, TLC

\* ------------------------------------------------------------------ bounds
MaxCalls == 2
MaxPeaks == 1
MaxIter == 6
MaxCap == 1
MaxGrid == 3

\* ----------------------------------------------------------------- helpers
Range(s) == {s[i] : i \in 1..Len(s)}

\* Sum and product of the first k elements of a sequence of integers.
RECURSIVE SumTo(_, _)
SumTo(s, k) == IF k = 0 THEN 0 ELSE s[k] + SumTo(s, k - 1)

SumSeq(s) == SumTo(s, Len(s))

RECURSIVE ProdTo(_, _)
ProdTo(s, k) == IF k = 0 THEN 1 ELSE s[k] * ProdTo(s, k - 1)

ProdSeq(s) == ProdTo(s, Len(s))

Min(a, b) == IF a <= b THEN a ELSE b

SetMax(S) == CHOOSE x \in S : \A y \in S : y <= x

\* All index tuples of a tensor of the given shape, 0-based as in numpy.
RECURSIVE Tuples(_)
Tuples(shape) ==
    IF shape = <<>> THEN {<<>>}
    ELSE {<<k>> \o t : k \in 0..(Head(shape) - 1), t \in Tuples(Tail(shape))}

\* np.unravel_index: the index tuple at 0-based position q in C order.
Unravel(q, shape) ==
    [i \in 1..Len(shape) |->
        (q \div ProdSeq(SubSeq(shape, i + 1, Len(shape)))) % shape[i]]

\* Position of an index tuple in C (row-major) order, 0-based.
RECURSIVE RowMajor(_, _)
RowMajor(t, shape) ==
    IF t = <<>> THEN 0
    ELSE Head(t) * ProdSeq(Tail(shape)) + RowMajor(Tail(t), Tail(shape))

\* --------------------------------------------------------- complex numbers
Conj(z) == <<z[1], -z[2]>>
CSub(a, b) == <<a[1] - b[1], a[2] - b[2]>>
CMul(a, b) == <<a[1] * b[1] - a[2] * b[2], a[1] * b[2] + a[2] * b[1]>>
CScale(n, a) == <<n * a[1], n * a[2]>>
Abs2(z) == z[1] * z[1] + z[2] * z[2]

\* Sum of a sequence of complex numbers.
CSum(s) ==
    <<SumSeq([k \in 1..Len(s) |-> s[k][1]]), SumSeq([k \in 1..Len(s) |-> s[k][2]])>>

\* A sample is a complex number (SISO) or a dim_output x dim_input matrix of
\* complex numbers (MIMO), given as a sequence of rows.
ConjSample(x, mimo) ==
    IF mimo THEN [a \in 1..Len(x) |-> [b \in 1..Len(x[a]) |-> Conj(x[a][b])]]
    ELSE Conj(x)

SampleEntries(x, mimo) ==
    IF mimo THEN {x[a][b] : a \in 1..Len(x), b \in 1..Len(x[1])} ELSE {x}

\* np.max(np.abs(samples)), squared.
MaxAbs2(smp) ==
    SetMax({Abs2(z) : z \in UNION {SampleEntries(smp.val[t], smp.trail # <<>>) :
                                   t \in DOMAIN smp.val}})

\* --------------------------------------------------------------- optionals
\* A name that may be unbound (a local not assigned yet, an attribute not
\* set yet, an argument left None) holds <<>>; a bound one holds <<value>>.
None == <<>>
Some(x) == <<x>>
Val(o) == o[1]

\* ------------------------------------------------------------- sample data
Tensor1(seq) ==
    [lead |-> <<Len(seq)>>, trail |-> <<>>,
     val |-> [t \in Tuples(<<Len(seq)>>) |-> seq[t[1] + 1]]]

Tensor2(rows) ==
    [lead |-> <<Len(rows), Len(rows[1])>>, trail |-> <<>>,
     val |-> [t \in Tuples(<<Len(rows), Len(rows[1])>>) |->
                  rows[t[1] + 1][t[2] + 1]]]

\* A 1-variable tensor of dim_output x dim_input matrices.
TensorM1(seq) ==
    [lead |-> <<Len(seq)>>, trail |-> <<Len(seq[1]), Len(seq[1][1])>>,
     val |-> [t \in Tuples(<<Len(seq)>>) |-> seq[t[1] + 1]]]

R(x) == <<x, 0>>
I(y) == <<0, y>>

\* The constructions of a reductor the model starts from (the arguments of
\* pAAAReductor.__init__ given as data): sampling values, samples, conjugate.
Constructions ==
    { \* real grid, SISO
      [sv |-> << <<R(1), R(2), R(3)>> >>,
       smp |-> Tensor1(<<R(0), R(0), R(2)>>), conjugate |-> FALSE],
      \* constant data: the constant approximant is exact
      [sv |-> << <<R(1), R(2), R(3)>> >>,
       smp |-> Tensor1(<<R(2), R(2), R(2)>>), conjugate |-> TRUE],
      \* complex grid not closed under conjugation
      [sv |-> << <<I(1), I(2)>> >>,
       smp |-> Tensor1(<<I(2), R(1)>>), conjugate |-> TRUE],
      \* real and complex points, room for a null space of dimension 2
      [sv |-> << <<R(1), R(2), I(1), I(2)>> >>,
       smp |-> Tensor1(<<R(4), R(1), I(1), I(2)>>), conjugate |-> TRUE],
      \* two variables
      [sv |-> << <<I(1), R(1)>>, <<R(1), R(2)>> >>,
       smp |-> Tensor2(<< <<I(2), R(0)>>, <<R(1), R(1)>> >>), conjugate |-> TRUE],
      \* two real variables, room for a null space of dimension 2 or 3
      [sv |-> << <<R(1), R(2), R(3)>>, <<R(1), R(2), R(3)>> >>,
       smp |-> Tensor2(<< <<R(2), R(0), R(0)>>, <<R(0), R(1), R(0)>>,
                          <<R(0), R(0), R(1)>> >>), conjugate |-> FALSE],
      \* MIMO: 1 output, 2 inputs
      [sv |-> << <<I(1), R(1)>> >>,
       smp |-> TensorM1(<< << <<I(2), R(1)>> >>, << <<R(0), R(1)>> >> >>),
       conjugate |-> TRUE] }

\* tol as a fraction <<numerator, denominator>>.
Tols == {<<0, 1>>, <<1, 2>>}

\* ------------------------------------------------------------------- state
VARIABLES
    \* the reductor's attributes
    self_sampling_values, self_samples, conjugate, post_process, self_itpl_part,
    \* the caller: the arguments it passes, the list object it passes as
    \* itpl_part, the ambient random generator, the completed calls
    tol, itpl_part_arg, max_itpl_arg, caller_part, ambient_rng,
    calls, hist, fresh,
    \* the locals of reduce()
    pc, svs, samples, scale2, samples_orig, dim_io, max_samples, rel_tol, w, v,
    max_itpl, aliased, bary_func, j, err_mat, err, greedy_idx, greedy_seq,
    coefs, d_nsp, itpl_nodes, itpl_samples, rom, exc, log,
    \* the numerical results computed so far, by input
    errMemo, svdMemo, rkMemo,
    \* full_nd_loewner called on its own: its arguments and its result
    fnl_svs, fnl_itpl_part, L,
    \* GaussQuadratures: the arguments of a lookup, what quadrature() returned,
    \* the generator of iter_quadrature() and the pairs it has yielded
    order, npoints, q_ret, gen, yielded,
    \* DiffusionOperatorP1: the attributes set by __init__ and the matrix
    \* assemble() returned
    grid, boundary_info, diffusion_function, diffusion_constant,
    dirichlet_clear_columns, dirichlet_clear_diag, A,
    \* core/logger.py: the module's globals, the level of a logger made by
    \* getLogger, the LogIndenters of the with-blocks that are open, and the
    \* last call made on a logger
    INDENT, INDENT_BLOCKS, BLOCK_TIMINGS, level, open_blocks, last_call

attrVars == <<self_sampling_values, self_samples, conjugate, post_process>>
callerVars == <<tol, itpl_part_arg, max_itpl_arg, ambient_rng,
                calls, hist, fresh>>
enterVars == <<svs, samples, scale2, samples_orig, dim_io, max_samples, rel_tol,
               w, v, max_itpl, aliased>>
memoVars == <<errMemo, svdMemo, rkMemo>>
reductorVars == <<attrVars, callerVars, enterVars, memoVars, self_itpl_part,
                  caller_part, pc, bary_func, j, err_mat, err, greedy_idx,
                  greedy_seq, coefs, d_nsp, itpl_nodes, itpl_samples, rom, exc,
                  log>>
loewnerVars == <<fnl_svs, fnl_itpl_part, L>>
quadVars == <<order, npoints, q_ret, gen, yielded>>
feVars == <<grid, boundary_info, diffusion_function, diffusion_constant,
            dirichlet_clear_columns, dirichlet_clear_diag, A>>
loggerVars == <<INDENT, INDENT_BLOCKS, BLOCK_TIMINGS, level, open_blocks,
                last_call>>
auxVars == <<loewnerVars, quadVars, feVars, loggerVars>>
vars == <<self_sampling_values, self_samples, conjugate, post_process,
          self_itpl_part, tol, itpl_part_arg, max_itpl_arg, caller_part,
          ambient_rng, calls, hist, fresh, pc, svs, samples, scale2, samples_orig,
          dim_io, max_samples, rel_tol, w, v, max_itpl, aliased, bary_func, j,
          err_mat, err, greedy_idx, greedy_seq, coefs, d_nsp, itpl_nodes,
          itpl_samples, rom, exc, log, errMemo, svdMemo, rkMemo, auxVars>>

\* ------------------------------------------- conjugate augmentation (102-112)
\* The test restricted to the points of the upper half plane.
NeedsConjUpper(s, svs0) == s[2] > 0 /\ Conj(s) \notin Range(svs0)

\* line 107: s.conj() not in svs[0]
NeedsConj(s, svs0) == Conj(s) \notin Range(svs0)

\* line 109: samples[i, None].conj()
ConjRow(x, mimo) == ConjSample(x, mimo)

\* The 0-based positions of svs[0] whose conjugate is appended, in order.
RECURSIVE ConjOrigins(_, _)
ConjOrigins(svs0, i) ==
    IF i > Len(svs0) THEN <<>>
    ELSE (IF NeedsConj(svs0[i], svs0) THEN <<i - 1>> ELSE <<>>)
         \o ConjOrigins(svs0, i + 1)

\* lines 104-112: svs[0] with s_conj_list appended and samples with
\* samples_conj_list stacked under it (np.vstack: along the leading axis).
ConjAugment(svs0, smp) ==
    LET orig == ConjOrigins(svs0, 1)
        n0 == smp.lead[1]
        lead2 == [smp.lead EXCEPT ![1] = n0 + Len(orig)]
    IN [svs0 |-> svs0 \o [k \in 1..Len(orig) |-> Conj(svs0[orig[k] + 1])],
        samples |->
            [lead |-> lead2, trail |-> smp.trail,
             val |-> [t \in Tuples(lead2) |->
                        IF t[1] < n0 THEN smp.val[t]
                        ELSE ConjRow(smp.val[<<orig[t[1] - n0 + 1]>> \o Tail(t)],
                                     smp.trail # <<>>)]],
        appended |-> orig # <<>>]

\* svs = self.sampling_values: the same list object.
ListAlias(l) == [val |-> l, shared |-> TRUE]

\* line 99: svs = self.sampling_values.copy(), a new list object holding the
\* same arrays: an item assignment to it does not reach the original.
ListCopy(l) == [val |-> l, shared |-> FALSE]

\* ------------------------------------------------- MIMO projection (118-137)
\* pymor.tools.random.new_rng(seed): a generator of its own whose state is
\* fixed by the seed.  A generator is its state; normal() advances it.
new_rng(seed) == seed
RngStep(s) == (5 * s + 3) % 16
RngValue(s) == ((s \div 2) % 3) + 1

RECURSIVE RngNormal(_, _)
RngNormal(s, n) ==
    IF n = 0 THEN [vals |-> <<>>, state |-> s]
    ELSE LET r == RngNormal(RngStep(s), n - 1)
         IN [vals |-> <<RngValue(RngStep(s))>> \o r.vals, state |-> r.state]

\* The projection vectors drawn from the ambient generator.
ProjectionRngAmbient(ambient) == ambient

\* line 124: the generator the projection vectors are drawn from.
ProjectionRng(ambient) == new_rng(0)

\* lines 125-132, before normalisation: w (dim_output) and v (dim_input).
ProjectionVectors(rng, svs0, p, m) ==
    IF \E s \in Range(svs0) : s[2] # 0
    THEN LET wi == RngNormal(rng, p)
             wr == RngNormal(wi.state, p)
             vi == RngNormal(wr.state, m)
             vr == RngNormal(vi.state, m)
         IN [w |-> [a \in 1..p |-> <<wr.vals[a], wi.vals[a]>>],
             v |-> [b \in 1..m |-> <<vr.vals[b], vi.vals[b]>>]]
    ELSE LET wr == RngNormal(rng, p)
             vr == RngNormal(wr.state, m)
         IN [w |-> [a \in 1..p |-> <<wr.vals[a], 0>>],
             v |-> [b \in 1..m |-> <<vr.vals[b], 0>>]]

Norm2(vec) == SumSeq([a \in 1..Len(vec) |-> Abs2(vec[a])])

\* line 135: samples @ v @ w for one sample matrix S (rows: outputs).
ProjectSample(S, vv, ww) ==
    CSum([a \in 1..Len(ww) |->
            CMul(CSum([b \in 1..Len(vv) |-> CMul(S[a][b], vv[b])]), ww[a])])

\* lines 133-137: the projected tensor, by the unnormalised vectors; the
\* normalisation divides every entry by |w| |v| (scale2 = |w|^2 |v|^2).
ProjectTensor(smp, vv, ww) ==
    [lead |-> smp.lead, trail |-> <<>>,
     val |-> [t \in DOMAIN smp.val |-> ProjectSample(smp.val[t], vv, ww)]]

\* ------------------------------------------------------------------- Init
MaxItplArgs(nv) == {None} \cup {Some([i \in 1..nv |-> c]) : c \in 1..MaxCap}

\* A reductor as __init__ (51-74) leaves it, with the arguments its caller
\* is about to pass to reduce().
ReductorInit(cs) ==
    /\ \E c \in cs :
         /\ self_sampling_values = c.sv
         /\ self_samples = c.smp
         /\ conjugate = c.conjugate
         /\ caller_part = [i \in 1..Len(c.sv) |-> <<0>>]
         /\ max_itpl_arg \in MaxItplArgs(Len(c.sv))
    /\ post_process \in BOOLEAN
    /\ tol \in Tols
    /\ itpl_part_arg \in {None, Some("caller")}
    /\ self_itpl_part = None
    /\ ambient_rng = 1
    /\ fresh = TRUE
    /\ calls = 0
    /\ hist = <<>>
    /\ pc = "idle"
    /\ svs = None /\ samples = None /\ scale2 = 1 /\ samples_orig = None
    /\ dim_io = None /\ max_samples = 0 /\ rel_tol = <<0, 1>>
    /\ w = None /\ v = None /\ max_itpl = None /\ aliased = FALSE
    /\ bary_func = None /\ j = 0 /\ err_mat = None /\ err = <<1, 0>>
    /\ greedy_idx = None /\ greedy_seq = <<>>
    /\ coefs = None /\ d_nsp = None /\ itpl_nodes = None /\ itpl_samples = None
    /\ rom = None /\ exc = None /\ log = <<>>
    /\ errMemo = <<>> /\ svdMemo = <<>> /\ rkMemo = <<>>

\* full_nd_loewner has not been called on its own.
LoewnerIdle == fnl_svs = <<>> /\ fnl_itpl_part = <<>> /\ L = None

\* No quadrature has been looked up.
QuadIdle ==
    order = None /\ npoints = None /\ q_ret = None /\ gen = None /\ yielded = <<>>

\* No diffusion operator has been constructed.
FeIdle ==
    /\ grid = None /\ boundary_info = None /\ diffusion_function = None
    /\ diffusion_constant = None /\ dirichlet_clear_columns = FALSE
    /\ dirichlet_clear_diag = FALSE /\ A = None

\* logger.py as imported (lines 46-48), no logger used yet.
LoggerIdle ==
    /\ INDENT = 0 /\ INDENT_BLOCKS = TRUE /\ BLOCK_TIMINGS = TRUE
    /\ level = 20 /\ open_blocks = <<>> /\ last_call = None

InitFrom(cs) ==
    ReductorInit(cs) /\ LoewnerIdle /\ QuadIdle /\ FeIdle /\ LoggerIdle

Init == InitFrom(Constructions)

\* ------------------------------------------------- reduce(): entry (99-158)
\* line 155: the constant function of value np.mean(samples), held as the
\* sum of the samples over their number; the samples are not assigned again.
ConstBary(smp) ==
    [nodes |-> None, vals |-> None, coefs |-> None, part |-> None,
     mean |-> Some([num |-> CSum([q \in 1..ProdSeq(smp.lead) |->
                                    smp.val[Unravel(q - 1, smp.lead)]]),
                    den |-> ProdSeq(smp.lead)])]

ReduceEnter ==
    /\ pc \in {"idle", "done", "raised"}
    /\ calls < MaxCalls
    /\ LET cp == ListCopy(self_sampling_values)
           aug == IF conjugate THEN ConjAugment(cp.val[1], self_samples)
                  ELSE [svs0 |-> cp.val[1], samples |-> self_samples,
                        appended |-> FALSE]
           svs1 == [cp.val EXCEPT ![1] = aug.svs0]
           num_vars == Len(svs1)
           mimo == Len(aug.samples.lead) + Len(aug.samples.trail) # Len(svs1)
           p == IF mimo THEN aug.samples.trail[1] ELSE 1
           m == IF mimo THEN aug.samples.trail[2] ELSE 1
           pv == ProjectionVectors(ProjectionRng(ambient_rng), svs1[1], p, m)
       IN /\ svs' = svs1
          /\ self_sampling_values' =
                IF cp.shared /\ aug.appended THEN svs1 ELSE self_sampling_values
          /\ max_samples' = MaxAbs2(aug.samples)
          /\ rel_tol' = <<tol[1] * tol[1] * MaxAbs2(aug.samples), tol[2] * tol[2]>>
          /\ IF mimo
             THEN /\ w' = Some(pv.w) /\ v' = Some(pv.v)
                  /\ scale2' = Norm2(pv.w) * Norm2(pv.v)
                  /\ samples' = ProjectTensor(aug.samples, pv.v, pv.w)
                  /\ samples_orig' = Some(aug.samples)
             ELSE /\ w' = None /\ v' = None /\ scale2' = 1
                  /\ samples' = aug.samples
                  /\ samples_orig' = None
          /\ dim_io' = [out |-> p, in |-> m]
          /\ IF itpl_part_arg = None
             THEN /\ self_itpl_part' = Some([i \in 1..num_vars |-> <<>>])
                  /\ aliased' = FALSE
             ELSE /\ self_itpl_part' = Some(caller_part)
                  /\ aliased' = TRUE
          /\ max_itpl' = IF max_itpl_arg = None
                         THEN [i \in 1..num_vars |-> Len(svs1[i]) - 1]
                         ELSE Val(max_itpl_arg)
    /\ err' = <<1, 0>>
    /\ bary_func' = ConstBary(samples')
    /\ j' = 0
    /\ err_mat' = None /\ greedy_idx' = None /\ greedy_seq' = <<>>
    /\ coefs' = None /\ d_nsp' = None /\ itpl_nodes' = None /\ itpl_samples' = None
    /\ rom' = None /\ exc' = None /\ log' = <<>>
    /\ calls' = calls + 1
    /\ hist' = Append(hist, [fresh |-> fresh, ended |-> "no", part |-> None,
                             rom |-> None, w |-> None, v |-> None,
                             greedy |-> <<>>])
    /\ fresh' = FALSE
    /\ pc' = "loop"
    /\ UNCHANGED <<auxVars, self_samples, conjugate, post_process, tol, itpl_part_arg,
                   max_itpl_arg, caller_part, ambient_rng,
                   memoVars>>

\* ------------------------------------------ the greedy loop: error (160-178)
\* line 160: any(len(i) < mi for i, mi in zip(self.itpl_part, max_itpl))
HasRoom(part, caps) ==
    \E i \in 1..Min(Len(part), Len(caps)) : Len(part[i]) < caps[i]

\* The partitions alone, a variable at its cap not zeroed over its range.
ZeroIdxPartOnly(part, caps, lead) == [i \in 1..Len(part) |-> Range(part[i])]

\* lines 167-172: the index sets whose product is set to zero.
ZeroIdx(part, caps, lead) ==
    [i \in 1..Len(part) |->
        IF Len(part[i]) >= caps[i] THEN 0..(lead[i] - 1) ELSE Range(part[i])]

InBlock(t, zidx) == \A i \in 1..Len(t) : t[i] \in zidx[i]

\* err_mat left as computed: no entry is set to zero.
MaskedNone(em, zidx) == em

\* line 173: err_mat[np.ix_(*zero_idx)] = 0
Masked(em, zidx) == [t \in DOMAIN em |-> IF InBlock(t, zidx) THEN 0 ELSE em[t]]

\* lines 155, 164 in the first iteration: |mean(samples) - samples|^2 as the
\* numerators over the common denominator n^2 scale2.
ConstError(smp, mean) ==
    [t \in DOMAIN smp.val |-> Abs2(CSub(mean.num, CScale(mean.den, smp.val[t])))]

\* The squared errors a barycentric form may have on the grid: zero on the
\* grid points where every variable is interpolated is all the loop relies
\* on (they are masked), elsewhere at most MaxPeaks points carry the maximum.
ErrLevels == {1, 4}

SubsetsUpTo(S, k) == {T \in SUBSET S : Cardinality(T) >= 1 /\ Cardinality(T) <= k}

ErrChoices(part, lead) ==
    LET free == {t \in Tuples(lead) :
                    ~ \A i \in 1..Len(t) : t[i] \in Range(part[i])}
    IN {[peaks |-> {}, lvl |-> 0]}
       \cup {[peaks |-> T, lvl |-> l] : T \in SubsetsUpTo(free, MaxPeaks),
                                         l \in ErrLevels}

ErrTensor(e, lead) == [t \in Tuples(lead) |-> IF t \in e.peaks THEN e.lvl ELSE 0]

MaxOf(em) == SetMax({em[t] : t \in DOMAIN em})

LoopExit ==
    /\ pc = "loop"
    /\ ~ HasRoom(Val(self_itpl_part), max_itpl)
    /\ pc' = "finalize"
    /\ UNCHANGED <<auxVars, attrVars, callerVars, enterVars, memoVars, self_itpl_part,
                   caller_part, bary_func, j, err_mat, err, greedy_idx,
                   greedy_seq, coefs, d_nsp, itpl_nodes, itpl_samples, rom, exc,
                   log>>

EvalError ==
    /\ pc = "loop"
    /\ HasRoom(Val(self_itpl_part), max_itpl)
    /\ j < MaxIter
    /\ LET part == Val(self_itpl_part)
           zidx == ZeroIdx(part, max_itpl, samples.lead)
       IN IF bary_func.part = None
          THEN /\ err_mat' = Some(Masked(ConstError(samples, Val(bary_func.mean)),
                                         zidx))
               /\ err' = <<MaxOf(Val(err_mat')),
                           Val(bary_func.mean).den * Val(bary_func.mean).den
                             * scale2>>
               /\ UNCHANGED errMemo
          ELSE LET key == Val(bary_func.part)
               IN \E e \in (IF key \in DOMAIN errMemo THEN {errMemo[key]}
                            ELSE ErrChoices(key, samples.lead)) :
                     /\ errMemo' = IF key \in DOMAIN errMemo THEN errMemo
                                   ELSE errMemo @@ (key :> e)
                     /\ err_mat' = Some(Masked(ErrTensor(e, samples.lead), zidx))
                     /\ err' = <<MaxOf(Val(err_mat')), 1>>
    /\ j' = j + 1
    /\ pc' = "check"
    /\ UNCHANGED <<auxVars, attrVars, callerVars, enterVars, svdMemo, rkMemo,
                   self_itpl_part, caller_part, bary_func, greedy_idx,
                   greedy_seq, coefs, d_nsp, itpl_nodes, itpl_samples, rom, exc,
                   log>>

\* --------------------------------------- stopping criterion (180-182)
\* The comparison made strict.
ConvergedStrict(e, rt) == e[1] * rt[2] < rt[1] * e[2]

\* err <= rel_tol, on the squared magnitudes as fractions <<num, den>>.
Converged(e, rt) == e[1] * rt[2] <= rt[1] * e[2]

CheckTol ==
    /\ pc = "check"
    /\ pc' = IF Converged(err, rel_tol) THEN "finalize" ELSE "select"
    /\ UNCHANGED <<auxVars, attrVars, callerVars, enterVars, memoVars, self_itpl_part,
                   caller_part, bary_func, j, err_mat, err, greedy_idx,
                   greedy_seq, coefs, d_nsp, itpl_nodes, itpl_samples, rom, exc,
                   log>>

\* ------------------------------------------------ point selection (184-193)
\* The last maximiser of the flattened array in place of the first.
ArgMaxLast(em, lead) ==
    CHOOSE t \in DOMAIN em :
        /\ em[t] = MaxOf(em)
        /\ \A u \in DOMAIN em :
              em[u] = MaxOf(em) => RowMajor(t, lead) >= RowMajor(u, lead)

\* line 184: np.unravel_index(err_mat.argmax(), err_mat.shape): the first
\* maximiser of the flattened (C-order) array.
ArgMax(em, lead) ==
    CHOOSE t \in DOMAIN em :
        /\ em[t] = MaxOf(em)
        /\ \A u \in DOMAIN em :
              em[u] = MaxOf(em) => RowMajor(t, lead) <= RowMajor(u, lead)

\* line 192: np.where(svs[0] == conj_sample)[0], the 0-based positions.
WhereEq(seq, x) == {k \in 0..(Len(seq) - 1) : seq[k + 1] = x}

SetMin(S) == CHOOSE x \in S : \A y \in S : x <= y

\* The step without the test of the cap.
SelectStepNoCap(i, lst, g, cap, sv, conj) ==
    IF g \notin Range(lst)
    THEN IF i = 1 /\ conj /\ sv[g + 1][2] # 0
         THEN Append(Append(lst, g), SetMin(WhereEq(sv, Conj(sv[g + 1]))))
         ELSE Append(lst, g)
    ELSE lst

\* lines 186-193 for variable i: the list after the step.
SelectStep(i, lst, g, cap, sv, conj) ==
    IF g \notin Range(lst) /\ Len(lst) < cap
    THEN IF i = 1 /\ conj /\ sv[g + 1][2] # 0
         THEN Append(Append(lst, g), SetMin(WhereEq(sv, Conj(sv[g + 1]))))
         ELSE Append(lst, g)
    ELSE lst

SelectPoint ==
    /\ pc = "select"
    /\ LET g == ArgMax(Val(err_mat), samples.lead)
           part == Val(self_itpl_part)
           new == [i \in 1..Len(svs) |->
                     SelectStep(i, part[i], g[i], max_itpl[i], svs[i], conjugate)]
       IN /\ greedy_idx' = Some(g)
          /\ greedy_seq' = Append(greedy_seq, g)
          /\ self_itpl_part' = Some(new)
          /\ caller_part' = IF aliased THEN new ELSE caller_part
    /\ pc' = "solve"
    /\ UNCHANGED <<auxVars, attrVars, callerVars, enterVars, memoVars, bary_func, j,
                   err_mat, err, coefs, d_nsp, itpl_nodes, itpl_samples, rom,
                   exc, log>>

\* ------------------------------------------------ Loewner matrix (240-333)
\* The elements of a set of integers in increasing order.
SortedSeq(S) ==
    [k \in 1..Cardinality(S) |->
        CHOOSE x \in S : Cardinality({y \in S : y < x}) = k - 1]

\* np.arange(len(s)) with nothing deleted.
LsPartAll(part, svsx) ==
    [i \in 1..Min(Len(part), Len(svsx)) |-> SortedSeq(0..(Len(svsx[i]) - 1))]

\* _ls_part (378-385): np.delete(np.arange(len(s)), p) for every variable.
LsPart(part, svsx) ==
    [i \in 1..Min(Len(part), Len(svsx)) |->
        SortedSeq((0..(Len(svsx[i]) - 1)) \ Range(part[i]))]

Lens(lists) == [i \in 1..Len(lists) |-> Len(lists[i])]

\* nd_loewner (261-281) is defined when neither partition of any variable is
\* empty: the reshape to (-1, 0) of an empty selection raises.
LoewnerDefined(part, svsx) ==
    \A i \in 1..Len(part) : Len(part[i]) > 0 /\ Len(LsPart(part, svsx)[i]) > 0

RECURSIVE SumOver(_, _)
SumOver(S, f) ==
    IF S = {} THEN 0
    ELSE LET x == CHOOSE y \in S : TRUE IN f[x] + SumOver(S \ {x}, f)

\* full_nd_loewner (305-333): the rows of nd_loewner on the LS partitions and,
\* for every other combination i of variables taken from the interpolation
\* partition (i[k] = 0) or left free (i[k] = 1), one block per combination j
\* of interpolated indices.
FullLoewnerRows(part, svsx) ==
    LET n == Len(svsx)
        ls == LsPart(part, svsx)
        combos == [1..n -> {0, 1}] \ {[k \in 1..n |-> 0]}
        rowsOf == [c \in combos |->
                     ProdSeq([k \in 1..n |->
                                IF c[k] = 0 THEN Len(part[k]) ELSE Len(ls[k])])]
    IN SumOver(combos, rowsOf)

FullLoewnerCols(part) == ProdSeq(Lens(part))

\* lines 198-203: d_nsp counts, among the min(r, c) singular values of the
\* r x c matrix, those below nsp_tol relative to the largest: never the largest.
SvdChoices(r, c) == 0..(Min(r, c) - 1)

\* The entry of nd_loewner for one variable, LS index kl and interpolated
\* index ki, is (samples[kl] - samples[ki]) / (s[kl] - s[ki]): it is zero
\* exactly when the two samples are equal.
LoewnerEntryZero(smp, kl, ki) == smp.val[<<kl>>] = smp.val[<<ki>>]

\* lines 198-200: the positions (0-based) where coefs, the last right singular
\* vector, is exactly zero.  For one variable and a 1 x 2 matrix [a, b] the
\* vector spans the null space, (-b, a) up to a factor, and (0, 1) when the
\* matrix is zero (the factorisation applies no reflection); for other shapes
\* the entries depend on the data beyond what the model computes and are
\* taken to be non-zero.
CoefZeros(smp, svsx, part) ==
    IF Len(part) = 1 /\ Len(part[1]) = 2 /\ Len(LsPart(part, svsx)[1]) = 1
    THEN LET kl == LsPart(part, svsx)[1][1]
             a0 == LoewnerEntryZero(smp, kl, part[1][1])
             b0 == LoewnerEntryZero(smp, kl, part[1][2])
         IN IF b0 THEN {0} ELSE IF a0 THEN {1} ELSE {}
    ELSE {}

SolveLS ==
    /\ pc = "solve"
    /\ LET part == Val(self_itpl_part)
       IN IF ~ LoewnerDefined(part, svs)
          THEN /\ pc' = "raised"
               /\ exc' = Some("ValueError")
               /\ hist' = [hist EXCEPT ![Len(hist)] =
                             [@ EXCEPT !.ended = "raised", !.part = self_itpl_part,
                                       !.w = w, !.v = v, !.greedy = greedy_seq]]
               /\ UNCHANGED <<svdMemo, coefs, d_nsp>>
          ELSE \E r \in (IF part \in DOMAIN svdMemo THEN {svdMemo[part]}
                         ELSE SvdChoices(FullLoewnerRows(part, svs),
                                         FullLoewnerCols(part))) :
                  /\ svdMemo' = IF part \in DOMAIN svdMemo THEN svdMemo
                                ELSE svdMemo @@ (part :> r)
                  /\ coefs' = Some([part |-> part,
                                    zeros |-> CoefZeros(samples, svs, part)])
                  /\ d_nsp' = Some(r)
                  /\ pc' = "postproc"
                  /\ UNCHANGED <<exc, hist>>
    /\ UNCHANGED <<auxVars, attrVars, tol, itpl_part_arg, max_itpl_arg, ambient_rng, calls, fresh, enterVars, errMemo, rkMemo,
                   self_itpl_part, caller_part, bary_func, j, err_mat, err,
                   greedy_idx, greedy_seq, itpl_nodes, itpl_samples, rom, log>>

\* ------------------------------------------------ post-processing (388-427)
\* np.argmax over the partition sizes: the first variable of maximal size.
MaxIdx(part) ==
    SetMin({i \in 1..Len(part) :
              \A k \in 1..Len(part) : Len(part[k]) <= Len(part[i])})

\* lines 393-411: the rank estimates the sweep over the 1-D Loewner matrices
\* can give: that of the largest variable is set to its size - 1, any other is
\* the rank of matrices with len(ls_part) rows and len(itpl_part) columns.
RankChoices(part, svsx) ==
    LET ls == LsPart(part, svsx)
        top == SetMax({Len(part[i]) : i \in 1..Len(part)})
    IN {f \in [1..Len(part) -> 0..top] :
          \A i \in 1..Len(part) :
             IF i = MaxIdx(part) THEN f[i] = Len(part[i]) - 1
             ELSE f[i] <= Min(Len(ls[i]), Len(part[i]))}

\* The last entries of lst in place of the first: lst[len(lst) - stop:].
PySliceTail(lst, stop) ==
    LET e == IF stop < 0 THEN (IF Len(lst) + stop < 0 THEN 0 ELSE Len(lst) + stop)
             ELSE Min(stop, Len(lst))
    IN SubSeq(lst, Len(lst) - e + 1, Len(lst))

\* Python's lst[0:stop].
PySlice(lst, stop) ==
    LET e == IF stop < 0 THEN (IF Len(lst) + stop < 0 THEN 0 ELSE Len(lst) + stop)
             ELSE Min(stop, Len(lst))
    IN SubSeq(lst, 1, e)

\* Failure on a zero product only: divisibility is not tested.
PostProcessingZeroOnly(part, dn, rks) ==
    LET denom == ProdSeq([k \in 1..Len(part) |-> Len(part[k]) - rks[k]])
    IN IF denom = 0
       THEN [ok |-> FALSE, part |-> part]
       ELSE LET rk2 == [rks EXCEPT ![MaxIdx(part)] =
                           Len(part[MaxIdx(part)]) - (dn \div denom)]
            IN [ok |-> TRUE,
                part |-> [i \in 1..Len(part) |-> PySlice(part[i], rk2[i] + 1)]]

\* lines 413-419: failure (None, None), or the truncated partition.
PostProcessing(part, dn, rks) ==
    LET denom == ProdSeq([k \in 1..Len(part) |-> Len(part[k]) - rks[k]])
    IN IF denom = 0 \/ dn % denom # 0
       THEN [ok |-> FALSE, part |-> part]
       ELSE LET rk2 == [rks EXCEPT ![MaxIdx(part)] =
                           Len(part[MaxIdx(part)]) - (dn \div denom)]
            IN [ok |-> TRUE,
                part |-> [i \in 1..Len(part) |-> PySlice(part[i], rk2[i] + 1)]]

Unchanged_PostProcess ==
    UNCHANGED <<auxVars, attrVars, tol, itpl_part_arg, max_itpl_arg, ambient_rng, calls, fresh, enterVars, errMemo, bary_func, j,
                err_mat, err, greedy_idx, greedy_seq, d_nsp, itpl_nodes,
                itpl_samples, rom>>

\* lines 203-213
PostProcess ==
    /\ pc = "postproc"
    /\ LET part == Val(self_itpl_part)
       IN IF Val(d_nsp) > 1 /\ post_process
          THEN \E rks \in (IF part \in DOMAIN rkMemo THEN {rkMemo[part]}
                           ELSE RankChoices(part, svs)) :
                 LET pp == PostProcessing(part, Val(d_nsp), rks)
                 IN /\ rkMemo' = IF part \in DOMAIN rkMemo THEN rkMemo
                                 ELSE rkMemo @@ (part :> rks)
                    /\ IF ~ pp.ok
                       THEN /\ log' = log \o <<"pp_start", "pp_failed">>
                            /\ pc' = "update"
                            /\ UNCHANGED <<self_itpl_part, caller_part, coefs,
                                           svdMemo, exc, hist>>
                       ELSE /\ self_itpl_part' = Some(pp.part)
                            /\ caller_part' = IF aliased THEN pp.part
                                              ELSE caller_part
                            /\ IF ~ LoewnerDefined(pp.part, svs)
                               THEN /\ pc' = "raised"
                                    /\ exc' = Some("ValueError")
                                    /\ log' = Append(log, "pp_start")
                                    /\ hist' = [hist EXCEPT ![Len(hist)] =
                                         [@ EXCEPT !.ended = "raised",
                                                   !.part = Some(pp.part),
                                                   !.w = w, !.v = v,
                                                   !.greedy = greedy_seq]]
                                    /\ UNCHANGED <<coefs, svdMemo>>
                               ELSE \E r \in (IF pp.part \in DOMAIN svdMemo
                                              THEN {svdMemo[pp.part]}
                                              ELSE SvdChoices(
                                                     FullLoewnerRows(pp.part, svs),
                                                     FullLoewnerCols(pp.part))) :
                                      /\ svdMemo' =
                                           IF pp.part \in DOMAIN svdMemo
                                           THEN svdMemo
                                           ELSE svdMemo @@ (pp.part :> r)
                                      /\ coefs' = Some([part |-> pp.part,
                                           zeros |-> CoefZeros(samples, svs,
                                                               pp.part)])
                                      /\ log' = Append(log, "pp_start")
                                      /\ pc' = "update"
                                      /\ UNCHANGED <<exc, hist>>
          ELSE /\ log' = IF Val(d_nsp) > 1 THEN Append(log, "nonminimal") ELSE log
               /\ pc' = "update"
               /\ UNCHANGED <<self_itpl_part, caller_part, coefs, svdMemo,
                              rkMemo, exc, hist>>
    /\ Unchanged_PostProcess

\* --------------------------------------- barycentric form update (215-223)
\* The index tuples of np.ix_(*lists) in C order.
RECURSIVE IxSeq(_)
IxSeq(lists) ==
    IF lists = <<>> THEN << <<>> >>
    ELSE LET rest == IxSeq(Tail(lists))
             h == Head(lists)
         IN [q \in 1..(Len(h) * Len(rest)) |->
               <<h[((q - 1) \div Len(rest)) + 1]>> \o rest[((q - 1) % Len(rest)) + 1]]

\* lines 216-217 (227-228): samples[np.ix_(*itpl_part)] reshaped to a vector.
ItplSamples(smp, part) ==
    [q \in 1..Len(IxSeq(part)) |-> smp.val[IxSeq(part)[q]]]

\* line 218: [sv[lp] for sv, lp in zip(svs, self.itpl_part)]
ItplNodes(svsx, part) ==
    [i \in 1..Min(Len(svsx), Len(part)) |->
        [k \in 1..Len(part[i]) |-> svsx[i][part[i][k] + 1]]]

UpdateBary ==
    /\ pc = "update"
    /\ LET part == Val(self_itpl_part)
       IN /\ itpl_samples' = Some(ItplSamples(samples, part))
          /\ itpl_nodes' = Some(ItplNodes(svs, part))
          /\ bary_func' = [nodes |-> Some(ItplNodes(svs, part)),
                           vals |-> Some(ItplSamples(samples, part)),
                           coefs |-> coefs, part |-> Some(part), mean |-> None]
    /\ pc' = "nspcheck"
    /\ UNCHANGED <<auxVars, attrVars, callerVars, enterVars, memoVars, self_itpl_part,
                   caller_part, j, err_mat, err, greedy_idx, greedy_seq, coefs,
                   d_nsp, rom, exc, log>>

\* The null space ends the loop whether or not post-processing is enabled.
NspConvergedAny(pp, dn) == dn >= 1

\* line 221: self.post_process and d_nsp >= 1
NspConverged(pp, dn) == pp /\ dn >= 1

\* lines 221-223
NullspaceBreak ==
    /\ pc = "nspcheck"
    /\ IF NspConverged(post_process, Val(d_nsp))
       THEN /\ pc' = "finalize"
            /\ log' = Append(log, "nsp_converged")
       ELSE /\ pc' = "loop"
            /\ UNCHANGED log
    /\ UNCHANGED <<auxVars, attrVars, callerVars, enterVars, memoVars, self_itpl_part,
                   caller_part, bary_func, j, err_mat, err, greedy_idx,
                   greedy_seq, coefs, d_nsp, itpl_nodes, itpl_samples, rom, exc>>

\* ------------------------------------------- make_bary_func (336-375)
\* line 365: np.eye(1, n, p), the row with a one at 0-based position p.
OneHot(n, p) == [q \in 1..n |-> IF q = p + 1 THEN 1 ELSE 0]

\* np.kron of two vectors.
Kron(a, b) ==
    [q \in 1..(Len(a) * Len(b)) |->
        a[((q - 1) \div Len(b)) + 1] * b[((q - 1) % Len(b)) + 1]]

\* lines 358-368: pd after the first i variables (pd = 1 at the start).
RECURSIVE KronUpTo(_, _)
KronUpTo(ds, i) == IF i = 0 THEN <<1>> ELSE Kron(KronUpTo(ds, i - 1), ds[i])

\* bary_func(*args) (357-373) for arguments that are interpolation nodes in
\* every variable: d is then the one-hot row at the first node of minimal
\* distance, pd has a single one, at position K say, and num / denom is
\* coefs[K] * itpl_vals[K] / coefs[K]: the value itpl_vals[K], or nan (0 / 0)
\* when the coefficient is zero.  Away from the nodes the value depends on
\* the coefficients themselves, which the model does not hold.
BaryFunc(bf, args) ==
    LET n == Len(bf.nodes)
        near == [i \in 1..n |-> WhereEq(bf.nodes[i], args[i])]
    IN IF \E i \in 1..n : near[i] = {}
       THEN <<"offnode">>
       ELSE LET pd == KronUpTo([i \in 1..n |->
                                  OneHot(Len(bf.nodes[i]), SetMin(near[i]))], n)
                K == CHOOSE q \in 1..Len(pd) : pd[q] = 1
            IN IF (K - 1) \in bf.coefs.zeros
               THEN <<"nan">>
               ELSE <<"value", bf.vals[K]>>

\* ------------------------------------------------- finalisation (225-237)
Finalize ==
    /\ pc = "finalize"
    /\ LET part == Val(self_itpl_part)
           mimo == dim_io.in # 1 \/ dim_io.out # 1
           vals == IF mimo THEN Some(ItplSamples(Val(samples_orig), part))
                   ELSE itpl_samples
       IN /\ itpl_samples' = vals
          /\ IF itpl_nodes = None \/ vals = None \/ coefs = None
             THEN /\ pc' = "raised"
                  /\ exc' = Some("UnboundLocalError")
                  /\ rom' = None
                  /\ UNCHANGED bary_func
             ELSE /\ pc' = "done"
                  /\ bary_func' = [nodes |-> itpl_nodes, vals |-> vals,
                                   coefs |-> coefs, part |-> Some(part),
                                   mean |-> None]
                  /\ rom' = Some([dim_input |-> dim_io.in,
                                  dim_output |-> dim_io.out,
                                  nodes |-> Val(itpl_nodes), vals |-> Val(vals),
                                  coefs |-> Val(coefs)])
                  /\ UNCHANGED exc
          /\ hist' = [hist EXCEPT ![Len(hist)] =
                        [@ EXCEPT !.ended = pc', !.part = self_itpl_part,
                                  !.rom = rom', !.w = w, !.v = v,
                                  !.greedy = greedy_seq]]
    /\ UNCHANGED <<auxVars, attrVars, tol, itpl_part_arg, max_itpl_arg, ambient_rng, calls, fresh, enterVars, memoVars,
                   self_itpl_part, caller_part, j, err_mat, err, greedy_idx,
                   greedy_seq, coefs, d_nsp, itpl_nodes, log>>

\* ------------------------------------------------------------ environment
\* The caller constructs the reductor anew from the same data (__init__,
\* 51-74) and builds its arguments anew; the code that runs between the two
\* runs draws from the ambient (global) random generator.
Construct ==
    /\ pc \in {"done", "raised"}
    /\ calls < MaxCalls
    /\ ~ fresh
    /\ fresh' = TRUE
    /\ self_itpl_part' = None
    /\ caller_part' = [i \in 1..Len(self_sampling_values) |-> <<0>>]
    /\ ambient_rng' = RngStep(ambient_rng)
    /\ pc' = "idle"
    /\ UNCHANGED <<auxVars, attrVars, tol, itpl_part_arg, max_itpl_arg, calls, hist, enterVars, memoVars,
                   bary_func, j, err_mat, err, greedy_idx, greedy_seq, coefs,
                   d_nsp, itpl_nodes, itpl_samples, rom, exc, log>>

Next ==
    \/ ReduceEnter
    \/ LoopExit
    \/ EvalError
    \/ CheckTol
    \/ SelectPoint
    \/ SolveLS
    \/ PostProcess
    \/ UpdateBary
    \/ NullspaceBreak
    \/ Finalize
    \/ Construct

Spec == Init /\ [][Next]_vars

\* The steps of a running reduce() call: Python executes them one after the
\* other, so a call in progress always takes its next step.
ReduceStep ==
    \/ LoopExit
    \/ EvalError
    \/ CheckTol
    \/ SelectPoint
    \/ SolveLS
    \/ PostProcess
    \/ UpdateBary
    \/ NullspaceBreak
    \/ Finalize

\* reduce() called with its defaults: itpl_part=None, max_itpl=None.
DefaultArgs == itpl_part_arg = None /\ max_itpl_arg = None

InitDefault == Init /\ DefaultArgs

FairSpec == InitDefault /\ [][Next]_vars /\ WF_vars(ReduceStep)

\* ------------------------------------- conjugate augmentation on its own
\* Reductors with conjugate=True over every variable-0 sampling sequence
\* without duplicates of up to MaxGrid values of ConjValues: one variable with
\* scalar samples, one variable with 1 x 2 matrix samples, and two variables.
ConjValues == {R(1), R(2), I(1), I(-1), I(2), <<1, 1>>}

NoDuplicates(seq) ==
    \A a, b \in 1..Len(seq) : seq[a] = seq[b] => a = b

ConjGrids ==
    {g \in UNION {[1..n -> ConjValues] : n \in 1..MaxGrid} : NoDuplicates(g)}

ConjConstructions ==
    {[sv |-> <<g>>, smp |-> Tensor1([k \in 1..Len(g) |-> <<k, k + 1>>]),
      conjugate |-> TRUE] : g \in ConjGrids}
    \cup {[sv |-> <<g>>,
           smp |-> TensorM1([k \in 1..Len(g) |-> << <<I(k), <<1, k>>>> >>]),
           conjugate |-> TRUE] : g \in ConjGrids}
    \cup {[sv |-> <<g, <<R(1), R(2)>> >>,
           smp |-> Tensor2([k \in 1..Len(g) |-> <<I(k), <<k, 1>>>>]),
           conjugate |-> TRUE] : g \in ConjGrids}

InitConj == InitFrom(ConjConstructions) /\ DefaultArgs

NextConj == ReduceEnter

SpecConj == InitConj /\ [][NextConj]_vars

\* A reductor that is constructed and not used while another component runs.
ReductorIdle ==
    /\ ReductorInit({[sv |-> << <<R(1), R(2), R(3)>> >>,
                      smp |-> Tensor1(<<R(0), R(0), R(2)>>),
                      conjugate |-> FALSE]})
    /\ DefaultArgs /\ post_process /\ tol = <<0, 1>>

\* ------------------------------------- full_nd_loewner on its own (240-333)
MaxVars == 3
MaxLoewnerGrid == 3

\* The elements of seq at the positions k with c[k] = b, in order
\* ([x[k] for k in range_S if i[k] == b]).
Pick(seq, c, b) ==
    LET idx == SortedSeq({k \in 1..Len(seq) : c[k] = b})
    IN [q \in 1..Len(idx) |-> seq[idx[q]]]

\* Concatenation of the first k sequences of a sequence of sequences.
RECURSIVE ConcatTo(_, _)
ConcatTo(ss, k) == IF k = 0 THEN <<>> ELSE ConcatTo(ss, k - 1) \o ss[k]

\* nd_loewner (261-281): samplesd / sdpd has one row per combination of LS
\* indices (samples1.T, C order) and one column per combination of
\* interpolated indices (samples0, C order).
NdLoewner(svsx, part) ==
    [rows |-> IxSeq(LsPart(part, svsx)), ncols |-> Len(IxSeq(part))]

\* line 309: itertools.product(*([0, 1] for _ in range_S)), in its order.
Combos(n) == [q \in 1..(2 ^ n) |-> Unravel(q - 1, [k \in 1..n |-> 2])]

\* Only the all-interpolated combination is skipped.
SkipComboZeroOnly(c) == \A k \in 1..Len(c) : c[k] = 0

\* line 312: the all-interpolated and the all-LS combinations are skipped.
SkipCombo(c) ==
    (\A k \in 1..Len(c) : c[k] = 0) \/ (\A k \in 1..Len(c) : c[k] = 1)

\* lines 316-319: l_j, the index tuple j with the free variables' own index
\* put in at the positions of the slices.
Embed(jt, r, c) ==
    [k \in 1..Len(c) |->
        LET rank == Cardinality({m \in 1..k : c[m] = c[k]})
        IN IF c[k] = 0 THEN jt[rank] ELSE r[rank]]

\* lines 315-332 for one combination c: for every j (315) the block
\* LL @ T_mat, whose rows are those of nd_loewner on the free variables (331)
\* and whose width is that of T_mat, the Kronecker product (323-330) of
\* matrices with len(itpl_part[k]) columns each.
ComboBlocks(svsx, part, c) ==
    LET js == IxSeq(Pick(part, c, 0))
        LL == NdLoewner(Pick(svsx, c, 1), Pick(part, c, 1))
    IN [q \in 1..Len(js) |->
          [rows |-> [x \in 1..Len(LL.rows) |-> Embed(js[q], LL.rows[x], c)],
           ncols |-> ProdSeq(Lens(part))]]

\* full_nd_loewner (305-333): the blocks stacked by np.vstack, which raises
\* unless they have the same number of columns.
FullNdLoewner(svsx, part) ==
    LET n == Len(svsx)
        cs == Combos(n)
        first == NdLoewner(svsx, part)
        blocks == ConcatTo([q \in 1..Len(cs) |->
                              IF SkipCombo(cs[q]) THEN <<>>
                              ELSE ComboBlocks(svsx, part, cs[q])], Len(cs))
    IN IF ~ LoewnerDefined(part, svsx)
          \/ \E b \in 1..Len(blocks) : blocks[b].ncols # first.ncols
       THEN [ok |-> FALSE, rows |-> <<>>, ncols |-> 0]
       ELSE [ok |-> TRUE,
             rows |-> first.rows
                      \o ConcatTo([b \in 1..Len(blocks) |-> blocks[b].rows],
                                  Len(blocks)),
             ncols |-> first.ncols]

\* The arguments: up to MaxVars variables with 2..MaxLoewnerGrid sampling
\* values each, and for every variable a list of indices: any list of 1 to
\* n - 1 distinct indices, a list holding an index twice, the empty list or
\* all the indices.
IndexLists(n) ==
    {p \in UNION {[1..m -> 0..(n - 1)] : m \in 1..(n - 1)} : NoDuplicates(p)}
    \cup {<<k, k>> : k \in 0..(n - 1)}
    \cup {<<>>, [k \in 1..n |-> k - 1]}

LoewnerInit ==
    /\ ReductorIdle /\ QuadIdle /\ FeIdle /\ LoggerIdle
    /\ \E nv \in 1..MaxVars :
         \E ns \in [1..nv -> 2..MaxLoewnerGrid] :
            /\ fnl_svs = [i \in 1..nv |-> [k \in 1..ns[i] |-> R(k)]]
            /\ \E ps \in [1..nv -> UNION {IndexLists(n) : n \in 2..MaxLoewnerGrid}] :
                  /\ \A i \in 1..nv : ps[i] \in IndexLists(ns[i])
                  /\ fnl_itpl_part = ps
    /\ L = None

\* L = full_nd_loewner(samples, svs, itpl_part)
BuildLoewner ==
    /\ fnl_svs # <<>> /\ L = None
    /\ L' = Some(FullNdLoewner(fnl_svs, fnl_itpl_part))
    /\ UNCHANGED <<fnl_svs, fnl_itpl_part, reductorVars, quadVars, feVars,
                   loggerVars>>

NextLoewner == BuildLoewner

SpecLoewner == LoewnerInit /\ [][NextLoewner]_vars

\* --------------------------------- GaussQuadratures (tools/quadratures.py)
MaxOrderArg == 25
MaxNpointsArg == 14

\* lines 42-43
orders == <<1, 3, 5, 7, 9, 11, 13, 15, 17, 19, 21, 23>>

order_map ==
    <<0, 0, 1, 1, 2, 2, 3, 3, 4, 4, 5, 5, 6, 6, 7, 7, 8, 8, 9, 9, 10, 10, 11, 11>>

\* lines 45-227: the tabulated points and weights, each cut to four decimal
\* places and held as an integer (.5 is 5000).
points ==
    << <<5000>>,
       <<2113, 7886>>,
       <<1127, 5000, 8872>>,
       <<694, 3300, 6699, 9305>>,
       <<469, 2307, 5000, 7692, 9530>>,
       <<337, 1693, 3806, 6193, 8306, 9662>>,
       <<254, 1292, 2970, 5000, 7029, 8707, 9745>>,
       <<198, 1016, 2372, 4082, 5917, 7627, 8983, 9801>>,
       <<159, 819, 1933, 3378, 5000, 6621, 8066, 9180, 9840>>,
       <<130, 674, 1602, 2833, 4255, 5744, 7166, 8397, 9325, 9869>>,
       <<108, 564, 1349, 2404, 3652, 5000, 6347, 7595, 8650, 9435, 9891>>,
       <<92, 479, 1150, 2063, 3160, 4373, 5626, 6839, 7936, 8849, 9520, 9907>> >>

weights ==
    << <<10000>>,
       <<5000, 5000>>,
       <<2777, 4444, 2777>>,
       <<1739, 3260, 3260, 1739>>,
       <<1184, 2393, 2844, 2393, 1184>>,
       <<856, 1803, 2339, 2339, 1803, 856>>,
       <<647, 1398, 1909, 2089, 1909, 1398, 647>>,
       <<506, 1111, 1568, 1813, 1813, 1568, 1111, 506>>,
       <<406, 903, 1303, 1561, 1651, 1561, 1303, 903, 406>>,
       <<333, 747, 1095, 1346, 1477, 1477, 1346, 1095, 747, 333>>,
       <<278, 627, 931, 1165, 1314, 1364, 1314, 1165, 931, 627, 278>>,
       <<235, 534, 800, 1015, 1167, 1245, 1245, 1167, 1015, 800, 534, 235>> >>

\* The lower bound of the order is not asserted.
OrderSupportedNoLower(o) == o <= Len(order_map) - 1

\* line 17: 0 <= order <= cls.order_map.size - 1
OrderSupported(o) == 0 <= o /\ o <= Len(order_map) - 1

\* The entry that follows that of the order.
OrderIndexNext(o) == order_map[((o + 1) % Len(order_map)) + 1]

\* line 18: cls.order_map[order]; a negative index counts from the end.
OrderIndex(o) == order_map[(o % Len(order_map)) + 1]

\* _determine_order (12-22): the index p, or the AssertionError of a failed
\* assert.
DetermineOrder(o, n) ==
    IF ~ (o # None \/ n # None) THEN [exc |-> Some("AssertionError"), p |-> 0]
    ELSE IF ~ (o = None \/ n = None)
    THEN [exc |-> Some("AssertionError"), p |-> 0]
    ELSE IF o # None
    THEN IF OrderSupported(Val(o)) THEN [exc |-> None, p |-> OrderIndex(Val(o))]
         ELSE [exc |-> Some("AssertionError"), p |-> 0]
    ELSE IF 1 <= Val(n) /\ Val(n) <= Len(orders)
    THEN [exc |-> None, p |-> Val(n) - 1]
    ELSE [exc |-> Some("AssertionError"), p |-> 0]

QuadInit ==
    /\ ReductorIdle /\ LoewnerIdle /\ FeIdle /\ LoggerIdle
    /\ order \in {None} \cup {Some(o) : o \in (-1)..MaxOrderArg}
    /\ npoints \in {None} \cup {Some(n) : n \in (-1)..MaxNpointsArg}
    /\ q_ret = None /\ gen = None /\ yielded = <<>>

\* quadrature (24-30)
Quadrature ==
    /\ q_ret = None
    /\ LET d == DetermineOrder(order, npoints)
       IN q_ret' = Some(IF d.exc # None THEN [exc |-> d.exc, P |-> <<>>, W |-> <<>>]
                        ELSE [exc |-> None, P |-> points[d.p + 1],
                              W |-> weights[d.p + 1]])
    /\ UNCHANGED <<order, npoints, gen, yielded, reductorVars, loewnerVars, feVars,
                   loggerVars>>

\* iter_quadrature (32-38) is a generator function: the call runs none of its
\* body and returns the generator.
IterQuadrature ==
    /\ gen = None
    /\ gen' = Some([at |-> "created", p |-> 0, i |-> 0, exc |-> None])
    /\ UNCHANGED <<order, npoints, q_ret, yielded, reductorVars, loewnerVars, feVars,
                   loggerVars>>

\* next() on the generator: the first one runs line 36; each one runs the
\* loop of lines 37-38 up to the next yield, or to the end (StopIteration).
IterNext ==
    /\ gen # None /\ Val(gen).at \in {"created", "yielded"}
    /\ LET g == Val(gen)
           d == IF g.at = "created" THEN DetermineOrder(order, npoints)
                ELSE [exc |-> None, p |-> g.p]
       IN IF d.exc # None
          THEN /\ gen' = Some([g EXCEPT !.at = "raised", !.exc = d.exc])
               /\ UNCHANGED yielded
          ELSE IF g.i < Len(points[d.p + 1])
          THEN /\ yielded' = Append(yielded, <<points[d.p + 1][g.i + 1],
                                              weights[d.p + 1][g.i + 1]>>)
               /\ gen' = Some([g EXCEPT !.at = "yielded", !.p = d.p,
                                        !.i = g.i + 1])
          ELSE /\ gen' = Some([g EXCEPT !.at = "finished"])
               /\ UNCHANGED yielded
    /\ UNCHANGED <<order, npoints, q_ret, reductorVars, loewnerVars, feVars,
                   loggerVars>>

NextQuad ==
    \/ Quadrature
    \/ IterQuadrature
    \/ IterNext

SpecQuad == QuadInit /\ [][NextQuad]_vars

\* ------------------------- DiffusionOperatorP1 (discreteoperators/cg.py)
\* Matrix entries and element integrals are held as twice their value: the
\* integrals of P1 gradients over the triangles below are halves of integers.
\* A grid is given by what assemble() asks of it: dim, size(dim), and per
\* element subentities(0, dim), jacobian_inverse_transposed(0) and volumes(0)
\* (doubled).
LineGrid(n) ==
    [dim |-> 1, size |-> n + 1,
     elems |-> [e \in 1..n |-> [verts |-> <<e - 1, e>>, jit |-> << <<1>> >>,
                                vol2 |-> 2]]]

\* k x k squares of side 1, each cut into the triangles (a, b, c) and
\* (d, c, b) of its corners a, b = a + 1, c = a + k + 1, d = c + 1.
SquareGrid(k) ==
    [dim |-> 2, size |-> (k + 1) * (k + 1),
     elems |-> [e \in 1..(2 * k * k) |->
                  LET q == (e - 1) \div 2
                      a == (q % k) + (k + 1) * (q \div k)
                  IN IF e % 2 = 1
                     THEN [verts |-> <<a, a + 1, a + k + 1>>,
                           jit |-> << <<1, 0>>, <<0, 1>> >>, vol2 |-> 1]
                     ELSE [verts |-> <<a + k + 2, a + k + 1, a + 1>>,
                           jit |-> << <<-1, 0>>, <<0, -1>> >>, vol2 |-> 1]]]

Grids == {LineGrid(3), SquareGrid(1), SquareGrid(2)}

\* lines 139-145: SF_GRAD
SfGrad(dim) ==
    IF dim = 2 THEN << <<-1, -1>>, <<1, 0>>, <<0, 1>> >> ELSE << <<-1>>, <<1>> >>

\* line 150: SF_GRADS, np.einsum('eij,pj->epi', jacobian_inverse_transposed, SF_GRAD)
\* for one element.
SfGrads(el, dim) ==
    [p \in 1..(dim + 1) |->
        [i \in 1..dim |->
            SumSeq([jj \in 1..dim |-> el.jit[i][jj] * SfGrad(dim)[p][jj]])]]

\* lines 153-164: SF_INTS, SF_I0 and SF_I1 before the boundary treatment:
\* entry (e, p, q) of the einsum, raveled in C order, with the vertex of
\* local index p as row (np.repeat) and that of q as column (np.tile).
LocalEntries(g, dfun, dconst) ==
    LET m == g.dim + 1
    IN [x \in 1..(Len(g.elems) * m * m) |->
          LET e == ((x - 1) \div (m * m)) + 1
              pp == (((x - 1) \div m) % m) + 1
              qq == ((x - 1) % m) + 1
              G == SfGrads(g.elems[e], g.dim)
              dot == SumSeq([i \in 1..g.dim |-> G[pp][i] * G[qq][i]])
              D == IF dfun # None THEN Val(dfun)[e] ELSE 1
              k == IF dconst # None THEN Val(dconst) ELSE 1
          IN [v |-> dot * g.elems[e].vol2 * D * k,
              r |-> g.elems[e].verts[pp], c |-> g.elems[e].verts[qq]]]

\* The integrals at the indices that are not masked are set to zero.
WhereUnmasked(mask, idx, ints) ==
    [x \in 1..Len(ints) |-> IF idx[x] \notin mask THEN 0 ELSE ints[x]]

\* lines 168, 170: np.where(bi.dirichlet_mask(g.dim)[idx], 0, SF_INTS)
WhereMasked(mask, idx, ints) ==
    [x \in 1..Len(ints) |-> IF idx[x] \in mask THEN 0 ELSE ints[x]]

\* assemble (133-182): the matrix of the summed COO entries (179-180).
AssembleMatrix(g, bi, dfun, dconst, clear_columns, clear_diag) ==
    LET loc == LocalEntries(g, dfun, dconst)
        I0 == [x \in 1..Len(loc) |-> loc[x].r]
        I1 == [x \in 1..Len(loc) |-> loc[x].c]
        v0 == [x \in 1..Len(loc) |-> loc[x].v]
        v1 == IF bi.has_dirichlet THEN WhereMasked(bi.mask, I0, v0) ELSE v0
        v2 == IF bi.has_dirichlet /\ clear_columns
              THEN WhereMasked(bi.mask, I1, v1) ELSE v1
        DI == SortedSeq(bi.mask)
        ones == bi.has_dirichlet /\ ~ clear_diag
        ints == IF ones THEN v2 \o [x \in 1..Len(DI) |-> 2] ELSE v2
        rows == IF ones THEN I0 \o DI ELSE I0
        cols == IF ones THEN I1 \o DI ELSE I1
    IN [r \in 0..(g.size - 1) |->
          [c \in 0..(g.size - 1) |->
              SumSeq([x \in 1..Len(ints) |->
                        IF rows[x] = r /\ cols[x] = c THEN ints[x] ELSE 0])]]

\* __init__ (119-131): a grid, a boundary info marking any set of vertices
\* as Dirichlet, and the options.
FeInit ==
    /\ ReductorIdle /\ LoewnerIdle /\ QuadIdle /\ LoggerIdle
    /\ \E g \in Grids :
         /\ grid = Some(g)
         /\ \E m \in SUBSET (0..(g.size - 1)) :
               boundary_info = Some([has_dirichlet |-> m # {}, mask |-> m])
         /\ diffusion_function \in
               {None, Some([e \in 1..Len(g.elems) |-> 1 + (e % 2)])}
    /\ diffusion_constant \in {None, Some(1), Some(3)}
    /\ dirichlet_clear_columns \in BOOLEAN
    /\ dirichlet_clear_diag \in BOOLEAN
    /\ A = None

Assemble ==
    /\ grid # None /\ A = None
    /\ A' = Some(AssembleMatrix(Val(grid), Val(boundary_info),
                                diffusion_function, diffusion_constant,
                                dirichlet_clear_columns, dirichlet_clear_diag))
    /\ UNCHANGED <<grid, boundary_info, diffusion_function, diffusion_constant,
                   dirichlet_clear_columns, dirichlet_clear_diag, reductorVars,
                   loewnerVars, quadVars, loggerVars>>

NextFe == Assemble

SpecFe == FeInit /\ [][NextFe]_vars

\* ------------------------------------------ loggers (core/logger.py)
MaxNesting == 2
MaxIndent == 3

\* lines 18-21 and the levels of the logging module.
LevelOf ==
    [info |-> 20, info2 |-> 21, info3 |-> 22, BLOCK |-> 25, BLOCK_TIME |-> 26,
     warning |-> 30]

\* The loggers a component may hold: one made by getLogger (119-151) and
\* dummy_logger (187).
Loggers == {"logger", "dummy_logger"}

\* Logger.isEnabledFor for the logger of getLogger; DummyLogger.isEnabledFor
\* (171-172) returns False.
IsEnabledFor(lg, lvl) == lg = "logger" /\ lvl >= level

\* The record of a call: the level it emitted a message at (0: none), the
\* exception it raised, and INDENT as it was before the call.
Call(lg, op, lvl, e) ==
    Some([target |-> lg, op |-> op,
          emitted |-> IF e = None /\ IsEnabledFor(lg, lvl) THEN lvl ELSE 0,
          exc |-> e, INDENT0 |-> INDENT])

LoggerInit ==
    /\ ReductorIdle /\ LoewnerIdle /\ QuadIdle /\ FeIdle
    /\ INDENT = 0 /\ INDENT_BLOCKS = TRUE /\ BLOCK_TIMINGS = TRUE
    /\ level \in {20, 30}
    /\ open_blocks = <<>> /\ last_call = None

\* set_log_format (207-228)
SetLogFormat ==
    /\ \E indent_blocks, block_timings \in BOOLEAN :
          /\ INDENT_BLOCKS' = indent_blocks
          /\ BLOCK_TIMINGS' = block_timings
    /\ UNCHANGED <<INDENT, level, open_blocks, last_call, reductorVars,
                   loewnerVars, quadVars, feVars>>

\* logger.info / warning (Logger's methods; DummyLogger.nop, 158-165) and
\* info2 / info3 (_info2, _info3, 261-266; DummyLogger.info2, info3, 180-184).
Emit ==
    /\ \E lg \in Loggers, op \in {"info", "warning", "info2", "info3"} :
          last_call' = Call(lg, op, LevelOf[op], None)
    /\ UNCHANGED <<INDENT, INDENT_BLOCKS, BLOCK_TIMINGS, level, open_blocks,
                   reductorVars, loewnerVars, quadVars, feVars>>

\* with lg.block(msg): entered.  getLogger binds _block (255-258) to its
\* logger as block (135); DummyLogger defines no block and has no __dict__
\* (__slots__, 156).  LogIndenter.__enter__ (237-243).
BlockEnter ==
    /\ Len(open_blocks) < MaxNesting
    /\ INDENT < MaxIndent
    /\ \E lg \in Loggers :
          IF lg = "dummy_logger"
          THEN /\ last_call' = Call(lg, "block", 0, Some("AttributeError"))
               /\ UNCHANGED <<INDENT, open_blocks>>
          ELSE LET doit == IsEnabledFor(lg, LevelOf.BLOCK) /\ INDENT_BLOCKS
               IN /\ last_call' = Call(lg, "block", LevelOf.BLOCK, None)
                  /\ open_blocks' = Append(open_blocks,
                                           [logger |-> lg, doit |-> doit,
                                            tic |-> BLOCK_TIMINGS])
                  /\ INDENT' = IF doit THEN INDENT + 1 ELSE INDENT
    /\ UNCHANGED <<INDENT_BLOCKS, BLOCK_TIMINGS, level, reductorVars,
                   loewnerVars, quadVars, feVars>>

\* The innermost with-block is left: LogIndenter.__exit__ (245-252); self.tic
\* exists only if BLOCK_TIMINGS held on entry.
BlockExit ==
    /\ open_blocks # <<>>
    /\ LET b == open_blocks[Len(open_blocks)]
       IN /\ open_blocks' = SubSeq(open_blocks, 1, Len(open_blocks) - 1)
          /\ IF ~ b.doit
             THEN /\ last_call' = Call(b.logger, "exit", 0, None)
                  /\ UNCHANGED INDENT
             ELSE IF BLOCK_TIMINGS /\ ~ b.tic
             THEN /\ last_call' = Call(b.logger, "exit", 0, Some("AttributeError"))
                  /\ UNCHANGED INDENT
             ELSE /\ last_call' = Call(b.logger, "exit",
                                      IF BLOCK_TIMINGS THEN LevelOf.BLOCK_TIME
                                      ELSE 0, None)
                  /\ INDENT' = INDENT - 1
    /\ UNCHANGED <<INDENT_BLOCKS, BLOCK_TIMINGS, level, reductorVars,
                   loewnerVars, quadVars, feVars>>

\* lg.getChild(name): Logger.getChild(suffix) returns a logger;
\* DummyLogger.getChild (177-178) takes no argument besides self.
GetChild ==
    /\ \E lg \in Loggers :
          last_call' = Call(lg, "getChild", 0,
                            IF lg = "dummy_logger" THEN Some("TypeError")
                            ELSE None)
    /\ UNCHANGED <<INDENT, INDENT_BLOCKS, BLOCK_TIMINGS, level, open_blocks,
                   reductorVars, loewnerVars, quadVars, feVars>>

NextLogger ==
    \/ SetLogFormat
    \/ Emit
    \/ BlockEnter
    \/ BlockExit
    \/ GetChild

SpecLogger == LoggerInit /\ [][NextLogger]_vars

\* ================================================================ claims
InLoop == pc \in {"loop", "check", "select", "solve", "postproc", "update",
                  "nspcheck"}
LoopLeft == pc \in {"finalize", "done", "raised"}

\* C1 (termination): called with itpl_part=None and the default max_itpl, a
\* reduce() call that is in its greedy loop always leaves the loop, whatever
\* the errors are: by convergence, by the null-space break, by an exception,
\* or because no variable has room left.
C1_LoopTerminates == (InLoop /\ DefaultArgs) ~> LoopLeft

\* C1 witness: the loop was left because no variable has room left although
\* the error is still above the tolerance.
C1_Witness ==
    /\ pc = "finalize" /\ DefaultArgs /\ j > 1
    /\ ~ HasRoom(Val(self_itpl_part), max_itpl)
    /\ ~ Converged(err, rel_tol)
    /\ ~ (post_process /\ Val(d_nsp) >= 1)

C3_FinalizeHasModel ==
    (pc = "finalize" => (itpl_nodes # None /\ coefs # None))
    /\ ~ (pc = "raised" /\ exc = Some("UnboundLocalError"))

\* C4 (as claimed): two consecutive reduce() calls on the same reductor with
\* the same arguments (the same list object for itpl_part included) end with
\* the same interpolation partition.
C4_Idempotent ==
    \A k \in 1..(Len(hist) - 1) :
        (hist[k].ended # "no" /\ hist[k + 1].ended # "no" /\ ~ hist[k + 1].fresh)
            => hist[k + 1].part = hist[k].part

\* C5 (frame): no step of reduce() changes self.samples or
\* self.sampling_values.
C5_StoredDataUnchanged ==
    [][self_samples' = self_samples
       /\ self_sampling_values' = self_sampling_values]_vars

\* C5 witness: a second call has returned, after conjugates were appended to
\* the local svs[0] and the local samples were projected to scalars.
C5_Witness ==
    /\ pc = "done" /\ calls = 2
    /\ Len(svs[1]) > Len(self_sampling_values[1])
    /\ w # None
    /\ samples.trail # self_samples.trail

\* The sample tensor after the augmentation, before the MIMO projection.
Augmented == IF samples_orig # None THEN Val(samples_orig) ELSE samples

\* The row of a tensor at leading index k (0-based): its entries by the
\* remaining indices.
Row(smp, k) == [t \in Tuples(Tail(smp.lead)) |-> smp.val[<<k>> \o t]]

ConjOfRow(row, mimo) == [t \in DOMAIN row |-> ConjSample(row[t], mimo)]

C8_StopRule ==
    [][/\ pc \in {"loop", "check"} =>
            /\ self_itpl_part' = self_itpl_part
            /\ coefs' = coefs
       /\ pc = "check" =>
            LET block == ZeroIdx(Val(self_itpl_part), max_itpl, samples.lead)
                emax == MaxOf(Val(err_mat))
                below == emax * tol[2] * tol[2]
                           <= tol[1] * tol[1] * MaxAbs2(self_samples) * err[2]
            IN /\ \A t \in DOMAIN Val(err_mat) :
                     InBlock(t, block) => Val(err_mat)[t] = 0
               /\ err[1] = emax
               /\ pc' = IF below THEN "finalize" ELSE "select"]_vars

\* C8 witness: convergence was declared with the error equal to the bound,
\* not zero, while a variable still had room.
C8_Witness ==
    /\ pc = "finalize" /\ j >= 2
    /\ HasRoom(Val(self_itpl_part), max_itpl)
    /\ err[1] > 0
    /\ err[1] * tol[2] * tol[2] = tol[1] * tol[1] * MaxAbs2(self_samples) * err[2]

\* C9 (as claimed): for SISO data, when reduce() has returned, the returned
\* function evaluated at the nodes of any combination of interpolated indices
\* gives the sample at that combination.
C9_ExactAtNodes ==
    (pc = "done" /\ self_samples.trail = <<>>) =>
        LET part == Val(self_itpl_part)
            ks == IxSeq(part)
        IN \A q \in 1..Len(ks) :
              BaryFunc(Val(rom), [i \in 1..Len(svs) |-> svs[i][ks[q][i] + 1]])
                 = <<"value", samples.val[ks[q]]>>

\* C10 (determinism of the MIMO reduction): two completed reduce() runs, each
\* the first run of a reductor constructed from the same data and called with
\* the same arguments, have drawn the same projection vectors w and v, gone
\* through the same greedy indices and ended the same way with the same
\* partition and the same model, whatever the ambient generator held.
C10_FreshRunsAgree ==
    \A k, l \in 1..Len(hist) :
        (hist[k].fresh /\ hist[l].fresh
         /\ hist[k].ended # "no" /\ hist[l].ended # "no") =>
            /\ hist[k].w = hist[l].w
            /\ hist[k].v = hist[l].v
            /\ hist[k].greedy = hist[l].greedy
            /\ hist[k].ended = hist[l].ended
            /\ hist[k].part = hist[l].part
            /\ hist[k].rom = hist[l].rom

\* C10 witness: two reductors with matrix samples have each returned a model
\* from their first run, the ambient generator having advanced in between.
C10_Witness ==
    /\ Len(hist) = 2 /\ pc = "done"
    /\ hist[1].fresh /\ hist[2].fresh
    /\ hist[1].ended = "done" /\ hist[2].ended = "done"
    /\ hist[1].w # None /\ Len(hist[1].greedy) >= 1
    /\ ambient_rng # 1

\* The arguments full_nd_loewner was called with satisfy the contract: every
\* variable has at least one interpolated index and fewer than sampling
\* values, and no index twice.
LoewnerPre ==
    \A i \in 1..Len(fnl_svs) :
        /\ Len(fnl_itpl_part[i]) >= 1
        /\ Len(fnl_itpl_part[i]) < Len(fnl_svs[i])
        /\ NoDuplicates(fnl_itpl_part[i])

\* C11 (shape of the full Loewner matrix): for grid sizes n_i and partitions
\* of m_i distinct indices, 1 <= m_i < n_i, full_nd_loewner returns a matrix
\* with prod(m_i) columns and prod(n_i) - prod(m_i) rows, and its rows are
\* the grid points that are not interpolated in every variable, each of them
\* exactly once.
C11_LoewnerShape ==
    (L # None /\ LoewnerPre) =>
        LET ns == Lens(fnl_svs)
            ms == Lens(fnl_itpl_part)
            rows == Val(L).rows
        IN /\ Val(L).ok
           /\ Val(L).ncols = ProdSeq(ms)
           /\ Len(rows) = ProdSeq(ns) - ProdSeq(ms)
           /\ NoDuplicates(rows)
           /\ Range(rows) =
                 {t \in Tuples(ns) :
                    ~ \A i \in 1..Len(t) : t[i] \in Range(fnl_itpl_part[i])}

\* C11 witness: a matrix built for three variables, with partitions of
\* different sizes and not in increasing order.
C11_Witness ==
    /\ L # None /\ LoewnerPre /\ Val(L).ok
    /\ Len(fnl_svs) = 3
    /\ fnl_itpl_part[1] = <<2, 0>>
    /\ Len(fnl_itpl_part[2]) = 1
    /\ Val(L).ncols = 4 /\ Len(Val(L).rows) = 23

\* C12 (non-minimal interpolant without post-processing): with
\* post_process=False, an iteration whose Loewner matrix has a null space of
\* dimension > 1 logs the warning, leaves the interpolation partition and the
\* coefficient vector of the SVD as they are, updates the barycentric form and
\* goes back to the loop condition: it does not end the loop.
C12_NonMinimalContinues ==
    [][(~ post_process /\ pc \in {"postproc", "update", "nspcheck"}
        /\ Val(d_nsp) > 1) =>
          /\ self_itpl_part' = self_itpl_part
          /\ coefs' = coefs
          /\ exc' = exc
          /\ pc = "postproc" => (pc' = "update"
                                 /\ log' = Append(log, "nonminimal"))
          /\ pc = "update" => (pc' = "nspcheck" /\ log' = log
                               /\ bary_func'.coefs = coefs)
          /\ pc = "nspcheck" => (pc' = "loop" /\ log' = log)]_vars

\* C12 witness: back at the loop condition after an iteration with a null
\* space of dimension 2 and the warning, with room left for another iteration.
C12_Witness ==
    /\ pc = "loop" /\ ~ post_process /\ j >= 1
    /\ d_nsp = Some(2)
    /\ Len(log) >= 1 /\ log[Len(log)] = "nonminimal"
    /\ HasRoom(Val(self_itpl_part), max_itpl)

\* C13 (quadrature lookup): quadrature(order=o) for 0 <= o <= 23 returns the
\* points and weights of the rule of index p = order_map[o], which are p + 1
\* each, with orders[p] >= o and no smaller index having that property;
\* quadrature(npoints=n) for 1 <= n <= 12 returns the rule of n points; and
\* iter_quadrature yields the pairs (point, weight) of that same rule, in
\* order.
C13_QuadratureLookup ==
    LET byOrder == order # None /\ npoints = None /\ Val(order) \in 0..23
        byCount == order = None /\ npoints # None /\ Val(npoints) \in 1..12
        p == IF byOrder
             THEN CHOOSE q \in 0..11 :
                     /\ orders[q + 1] >= Val(order)
                     /\ \A r \in 0..(q - 1) : orders[r + 1] < Val(order)
             ELSE Val(npoints) - 1
        pairs == [i \in 1..(p + 1) |-> <<points[p + 1][i], weights[p + 1][i]>>]
    IN (byOrder \/ byCount) =>
          /\ byOrder => p = order_map[Val(order) + 1]
          /\ q_ret # None =>
                /\ Val(q_ret).exc = None
                /\ Val(q_ret).P = points[p + 1] /\ Len(Val(q_ret).P) = p + 1
                /\ Val(q_ret).W = weights[p + 1] /\ Len(Val(q_ret).W) = p + 1
          /\ gen # None =>
                /\ Val(gen).exc = None
                /\ Len(yielded) <= p + 1
                /\ yielded = SubSeq(pairs, 1, Len(yielded))
                /\ Val(gen).at = "finished" => yielded = pairs

\* C13 witness: the rule for order 6 (index 3, four points, exact to degree
\* 7) was returned and the generator has yielded its four pairs and ended.
C13_Witness ==
    /\ order = Some(6) /\ npoints = None
    /\ q_ret # None /\ Len(Val(q_ret).P) = 4
    /\ gen # None /\ Val(gen).at = "finished" /\ Len(yielded) = 4

\* C14 (as claimed): a lookup with neither or both of order and npoints, with
\* an order outside 1..23 or with npoints outside 1..12 fails: quadrature
\* returns no rule, and iter_quadrature yields no pair and fails once it is
\* advanced.
C14_BadLookupFails ==
    LET bad == \/ order = None /\ npoints = None
               \/ order # None /\ npoints # None
               \/ order # None /\ Val(order) \notin 1..23
               \/ npoints # None /\ Val(npoints) \notin 1..12
    IN bad =>
          /\ q_ret # None => Val(q_ret).exc # None
          /\ yielded = <<>>
          /\ (gen # None /\ Val(gen).at # "created") => Val(gen).at = "raised"

\* C14 (amended): the same with the orders 0..23: order 0 is served by the
\* one-point rule.
C14_BadLookupFailsFrom0 ==
    LET bad == \/ order = None /\ npoints = None
               \/ order # None /\ npoints # None
               \/ order # None /\ Val(order) \notin 0..23
               \/ npoints # None /\ Val(npoints) \notin 1..12
    IN bad =>
          /\ q_ret # None => Val(q_ret) = [exc |-> Some("AssertionError"),
                                           P |-> <<>>, W |-> <<>>]
          /\ yielded = <<>>
          /\ (gen # None /\ Val(gen).at # "created") =>
                (Val(gen).at = "raised" /\ Val(gen).exc = Some("AssertionError"))

\* C14 witness: order -1 was refused by quadrature and by the generator at its
\* first step.
C14_Witness ==
    /\ order = Some(-1) /\ npoints = None
    /\ q_ret # None /\ Val(q_ret).exc = Some("AssertionError")
    /\ gen # None /\ Val(gen).at = "raised"

\* C15 (as claimed): with Dirichlet nodes and the options at their defaults
\* (dirichlet_clear_diag=False among them), the assembled matrix is
\* symmetric, and the row and the column of every Dirichlet node are zero off
\* the diagonal, with 1 (held as 2) on it.
C15_DirichletSymmetric ==
    (/\ A # None /\ Val(boundary_info).has_dirichlet
     /\ ~ dirichlet_clear_diag /\ ~ dirichlet_clear_columns
     /\ diffusion_function = None /\ diffusion_constant = None) =>
        LET M == Val(A)
            V == DOMAIN M
        IN /\ \A r, c \in V : M[r][c] = M[c][r]
           /\ \A d \in Val(boundary_info).mask :
                 /\ M[d][d] = 2
                 /\ \A c \in V \ {d} : M[d][c] = 0 /\ M[c][d] = 0

\* C15 (amended): with Dirichlet nodes and dirichlet_clear_diag=False, the
\* row of every Dirichlet node is zero off the diagonal, with 1 on it; with
\* dirichlet_clear_columns=True in addition, so is its column, and the matrix
\* is symmetric.
C15_DirichletRows ==
    (A # None /\ Val(boundary_info).has_dirichlet /\ ~ dirichlet_clear_diag) =>
        LET M == Val(A)
            V == DOMAIN M
        IN /\ \A d \in Val(boundary_info).mask :
                 /\ M[d][d] = 2
                 /\ \A c \in V \ {d} : M[d][c] = 0
           /\ dirichlet_clear_columns =>
                 /\ \A r, c \in V : M[r][c] = M[c][r]
                 /\ \A d \in Val(boundary_info).mask :
                       \A c \in V \ {d} : M[c][d] = 0

\* C15 witness: the 2 x 2 square grid with its eight boundary vertices
\* Dirichlet, columns cleared: the only other entry is that of the inner
\* vertex.
C15_Witness ==
    /\ A # None /\ ~ dirichlet_clear_diag /\ dirichlet_clear_columns
    /\ Val(grid).size = 9
    /\ Val(boundary_info).mask = (0..8) \ {4}
    /\ Val(A)[4][4] > 0 /\ Val(A)[0][0] = 2

\* C16 (as claimed): no call made on dummy_logger (info, warning, info2,
\* info3, with block(...), getChild(name)) raises, and none changes INDENT.
C16_DummyLoggerComplete ==
    (last_call # None /\ Val(last_call).target = "dummy_logger") =>
        /\ Val(last_call).exc = None
        /\ INDENT = Val(last_call).INDENT0

C18_MonotoneGrowth ==
    [][(calls' = calls /\ self_itpl_part # None /\ self_itpl_part' # None) =>
         LET old == Val(self_itpl_part)
             new == Val(self_itpl_part')
             Prefix(a, b) == Len(a) <= Len(b) /\ a = SubSeq(b, 1, Len(a))
         IN /\ Len(new) = Len(old)
            /\ IF pc = "postproc" /\ Val(d_nsp) > 1 /\ post_process
               THEN \A i \in 1..Len(old) : Prefix(new[i], old[i])
               ELSE \A i \in 1..Len(old) : Prefix(old[i], new[i])
            /\ pc \notin {"select", "postproc"} => new = old]_vars

\* A successful post-processing has removed an index: the selection step of
\* this iteration appended the greedy index and the index of its conjugate,
\* and the conjugate's index is no longer in the list.
C18_Witness ==
    /\ pc = "update" /\ conjugate /\ Len(svs) = 1
    /\ log # <<>> /\ log[Len(log)] = "pp_start"
    /\ LET g == Val(greedy_idx)[1]
           lst == Val(self_itpl_part)[1]
       IN /\ g \in Range(lst)
          /\ svs[1][g + 1][2] # 0
          /\ SetMin(WhereEq(svs[1], Conj(svs[1][g + 1]))) \notin Range(lst)

\* C19: in every iteration that passes the tolerance check (tol >= 0), the
\* selected greedy index lies outside the zeroed block (per variable: the
\* whole range if the variable is at its cap, else its partition), and some
\* variable below its cap has the index appended to its list.
C19_GreedyProgress ==
    [][pc = "select" =>
         LET g == Val(greedy_idx')
             part == Val(self_itpl_part)
             new == Val(self_itpl_part')
         IN /\ \E i \in 1..Len(part) :
                  IF Len(part[i]) >= max_itpl[i]
                  THEN g[i] \notin 0..(samples.lead[i] - 1)
                  ELSE g[i] \notin Range(part[i])
            /\ \E i \in 1..Len(part) :
                  /\ Len(part[i]) < max_itpl[i]
                  /\ Len(new[i]) > Len(part[i])
                  /\ new[i][Len(part[i]) + 1] = g[i]]_vars

\* A selection has been made with one variable at its cap, at an index that
\* variable does not hold, and another variable has received the index.
C19_Witness ==
    /\ pc = "solve" /\ tol[1] >= 0
    /\ \E i, k \in 1..Len(svs) :
          LET g == Val(greedy_idx)
              part == Val(self_itpl_part)
          IN /\ i # k
             /\ Len(part[i]) >= max_itpl[i]
             /\ g[i] \notin Range(part[i])
             /\ part[k] # <<>> /\ part[k][Len(part[k])] = g[k]

\* C20: the selection step with greedy index g appends g[i] to itpl_part[i]
\* exactly when g[i] is not in the list and the list is shorter than
\* max_itpl[i], and leaves every other list as it is; one more index, that of
\* the conjugate of the selected point, follows only for the first variable,
\* with conjugate set, g[0] appended and a sampling value off the real axis.
C20_SelectionEffect ==
    [][pc = "select" =>
         LET g == Val(greedy_idx')
             part == Val(self_itpl_part)
             new == Val(self_itpl_part')
         IN \A i \in 1..Len(part) :
               LET n == Len(part[i])
                   appended == g[i] \notin Range(part[i]) /\ n < max_itpl[i]
               IN /\ ~ appended => new[i] = part[i]
                  /\ appended =>
                        /\ Len(new[i]) \in {n + 1, n + 2}
                        /\ SubSeq(new[i], 1, n + 1) = Append(part[i], g[i])
                  /\ Len(new[i]) = n + 2 =>
                        /\ i = 1 /\ conjugate /\ appended
                        /\ svs[1][g[1] + 1][2] # 0
                        /\ svs[1][new[i][n + 2] + 1] = Conj(svs[1][g[1] + 1])]_vars

\* The first selection of a call started from the caller's [[0], [0]]: the
\* first variable has received the greedy index and the index of its
\* conjugate, the second, at its cap, is left as it was.
C20_Witness ==
    /\ pc = "solve" /\ calls = 1 /\ itpl_part_arg # None /\ conjugate
    /\ Len(greedy_seq) = 1 /\ Len(svs) = 2
    /\ Len(Val(self_itpl_part)[1]) = 3
    /\ Val(self_itpl_part)[1][2] = Val(greedy_idx)[1]
    /\ Val(self_itpl_part)[2] = <<0>>

\* C21: the greedy index selected is a maximiser of the masked error and is
\* lexicographically smallest (variable 0 most significant) among the
\* maximisers.
C21_TieBreak ==
    [][pc = "select" =>
         LET g == Val(greedy_idx')
             em == Val(err_mat)
             LexLeq(a, b) ==
                 \/ a = b
                 \/ \E k \in 1..Len(a) :
                       /\ a[k] < b[k]
                       /\ \A m \in 1..(k - 1) : a[m] = b[m]
         IN /\ g \in DOMAIN em
            /\ \A u \in DOMAIN em : em[u] <= em[g]
            /\ \A u \in DOMAIN em : em[u] = em[g] => LexLeq(g, u)]_vars

\* A selection has been made where another grid point carries the same,
\* maximal, masked error.
C21_Witness ==
    /\ pc = "solve"
    /\ \E u \in DOMAIN Val(err_mat) :
          /\ u # Val(greedy_idx)
          /\ Val(err_mat)[u] = Val(err_mat)[Val(greedy_idx)]
          /\ Val(err_mat)[u] > 0

\* C22: with post_process set, an iteration whose d_nsp is >= 1 goes on
\* through post-processing (not needed, succeeded or failed) to the update of
\* the barycentric form, built from the partition and coefficients of that
\* iteration, and then leaves the loop; no point is selected in a call after
\* an iteration with d_nsp >= 1.  Without post_process the test of d_nsp
\* always returns to the head of the loop.
C22_NullspaceTermination ==
    [][/\ (pc = "postproc" /\ post_process /\ Val(d_nsp) >= 1) => pc' = "update"
       /\ (pc = "update" /\ post_process /\ Val(d_nsp) >= 1) =>
             /\ pc' = "nspcheck"
             /\ bary_func'.part = self_itpl_part
             /\ bary_func'.coefs = coefs
       /\ (pc = "nspcheck" /\ post_process /\ Val(d_nsp) >= 1) =>
             /\ pc' = "finalize"
             /\ UNCHANGED <<bary_func, self_itpl_part, coefs, greedy_seq>>
       /\ (pc = "nspcheck" /\ ~ post_process) => pc' = "loop"
       /\ (pc = "select" /\ post_process) => (d_nsp = None \/ Val(d_nsp) = 0)
       /\ (pc = "finalize") => UNCHANGED <<self_itpl_part, greedy_seq>>]_vars

\* C23: a post-processing run (d_nsp > 1, post_process set) fails exactly
\* when the product over the variables other than the largest of (partition
\* size - estimated rank) is zero or does not divide d_nsp; a failed run
\* leaves self.itpl_part and the coefficients of the main loop as they are,
\* logs the warning and goes on to the update of the barycentric form.
C23_PostProcessFailure ==
    [][(pc = "postproc" /\ Val(d_nsp) > 1 /\ post_process) =>
         LET part == Val(self_itpl_part)
             rks == rkMemo'[part]
             Largest(i) ==
                 /\ \A k \in 1..Len(part) : Len(part[k]) <= Len(part[i])
                 /\ \A k \in 1..(i - 1) : Len(part[k]) < Len(part[i])
             denom == ProdSeq([k \in 1..Len(part) |->
                                 IF Largest(k) THEN 1
                                 ELSE Len(part[k]) - rks[k]])
             failed == log' = log \o <<"pp_start", "pp_failed">>
         IN /\ failed <=> (denom = 0 \/ Val(d_nsp) % denom # 0)
            /\ failed =>
                  /\ UNCHANGED <<self_itpl_part, caller_part, coefs>>
                  /\ pc' = "update"]_vars

\* A post-processing run has failed because the product, not zero, does not
\* divide d_nsp.
C23_Witness ==
    /\ pc = "update" /\ log # <<>> /\ log[Len(log)] = "pp_failed"
    /\ LET part == Val(self_itpl_part)
           denom == ProdSeq([k \in 1..Len(part) |->
                               Len(part[k]) - rkMemo[part][k]])
       IN denom > 1 /\ Val(d_nsp) % denom # 0

\* C24 (as claimed): whenever a post-processing run (d_nsp > 1, post_process
\* set) does not return the failure sentinel, every list of the new partition
\* is the prefix of the old one of length exactly max_rk_i + 1, with
\* max_rk = size - d_nsp / denom for the largest variable, and that length
\* lies between 1 and the old size: no list ends empty.
C24_TruncationLengths ==
    [][(/\ pc = "postproc" /\ Val(d_nsp) > 1 /\ post_process
        /\ log' # log \o <<"pp_start", "pp_failed">>) =>
         LET part == Val(self_itpl_part)
             new == Val(self_itpl_part')
             rks == rkMemo'[part]
             Largest(i) ==
                 /\ \A k \in 1..Len(part) : Len(part[k]) <= Len(part[i])
                 /\ \A k \in 1..(i - 1) : Len(part[k]) < Len(part[i])
             denom == ProdSeq([k \in 1..Len(part) |->
                                 IF Largest(k) THEN 1
                                 ELSE Len(part[k]) - rks[k]])
             max_rk(i) == IF Largest(i)
                          THEN Len(part[i]) - (Val(d_nsp) \div denom)
                          ELSE rks[i]
         IN \A i \in 1..Len(part) :
               /\ Len(new[i]) = max_rk(i) + 1
               /\ 1 <= Len(new[i]) /\ Len(new[i]) <= Len(part[i])
               /\ new[i] = SubSeq(part[i], 1, Len(new[i]))]_vars

\* C25: for the arguments of a Loewner build (index lists within the range
\* of the sampling values), _ls_part gives for every variable, in ascending
\* order, exactly the indices not in the interpolation partition: the two
\* are disjoint and cover every index, and in no row of the nd_loewner block
\* a variable's LS index equals one of its interpolated indices.
C25_LsPartComplement ==
    L # None =>
        LET ls == LsPart(fnl_itpl_part, fnl_svs)
            nrows == ProdSeq(Lens(ls))
        IN /\ Len(ls) = Len(fnl_svs)
           /\ \A i \in 1..Len(fnl_svs) :
                 LET all == 0..(Len(fnl_svs[i]) - 1)
                     itpl == Range(fnl_itpl_part[i])
                 IN /\ \A a, b \in 1..Len(ls[i]) : a < b => ls[i][a] < ls[i][b]
                    /\ Range(ls[i]) \cap itpl = {}
                    /\ Range(ls[i]) \cup itpl = all
                    /\ \A k \in all : k \notin itpl => k \in Range(ls[i])
           /\ Val(L).ok =>
                 \A r \in 1..nrows : \A i \in 1..Len(fnl_svs) :
                    Val(L).rows[r][i] \notin Range(fnl_itpl_part[i])

\* A matrix has been built for two variables, one with an interpolation
\* partition that is not in increasing order, one with two LS indices.
C25_Witness ==
    /\ L # None /\ Val(L).ok
    /\ Len(fnl_svs) = 2 /\ Len(fnl_svs[2]) = 3
    /\ fnl_itpl_part[1] = <<2, 0>>
    /\ fnl_itpl_part[2] = <<1>>

\* C26 (as claimed): in a call with itpl_part=None and the default max_itpl,
\* whenever full_nd_loewner is called (line 196 in the loop, line 422 in a
\* post-processing that does not return the sentinel) every variable's
\* partition is non-empty and a strict subset of the variable's indices.
C26_LoewnerNonEmpty ==
    [][DefaultArgs =>
         LET Proper(part) ==
                 \A i \in 1..Len(part) :
                    /\ part[i] # <<>>
                    /\ Range(part[i]) \subseteq 0..(Len(svs[i]) - 1)
                    /\ Range(part[i]) # 0..(Len(svs[i]) - 1)
         IN /\ pc = "solve" => Proper(Val(self_itpl_part))
            /\ (/\ pc = "postproc" /\ Val(d_nsp) > 1 /\ post_process
                /\ log' # log \o <<"pp_start", "pp_failed">>)
                  => Proper(Val(self_itpl_part'))]_vars

\* C27 (as claimed): INDENT is never negative and every exit of a
\* with-block restores the value INDENT had before that block was entered,
\* whatever set_log_format does in between; as entering adds one exactly for
\* an indenting block, INDENT is at all times the number of indenting blocks
\* that are open.
C27_BalancedIndent ==
    /\ INDENT >= 0
    /\ INDENT = Cardinality({k \in 1..Len(open_blocks) : open_blocks[k].doit})

====
